---- MODULE Spec2Model ----
(***************************************************************************)
(* The adaptation system of psycopg3 (psycopg3/adapt.py): the encoder and  *)
(* decoder registries at global, connection and cursor scope, the          *)
(* registration classmethods of Adapter and TypeCaster, and the            *)
(* Transformer, which resolves conversions and decodes result rows.        *)
(***************************************************************************)
EXTENDS Integers, Sequences, FiniteSets, TLC

(***************************************************************************)
(* Bounds of the exploration.                                              *)
(***************************************************************************)
\* successful register calls explored
MaxRegs == 2
\* stateful conversion instances one Transformer may construct
MaxInst == 2

(***************************************************************************)
(* The Python objects the operations are exercised with.                   *)
(***************************************************************************)
None == "None"

\* pq.Format
Formats == {"TEXT", "BINARY"}

\* every Python object is named by a string; the ints used as oids are
\* "0" (types.oids.INVALID_OID), "23" (int4) and "25" (builtins["text"].oid)
INVALID_OID == "0"
TEXT_OID == "25"

\* one connection with one cursor; "ctx_str" is an object that is neither
BaseConnections == {"conn1"}
BaseCursors == {"cur1"}
Contexts == {None, "conn1", "cur1", "ctx_str"}

\* BaseCursor.conn
cursor_conn(cur) == "conn1"

\* connection.codec
connection_codec(conn) == "latin1"

\* the registries: Adapter.globals / TypeCaster.globals, and the adapters /
\* casters attribute of every connection and cursor
Scopes == {"globals"} \cup BaseConnections \cup BaseCursors

\* the classes among the objects (isinstance(x, type))
Classes == {"int", "str", "object", "EncCls", "DecCls", "UnknownCaster"}
\* the functions among the objects
Functions == {"enc_fn", "dec_fn", "cast_unknown"}

isinstance_type(x) == x \in Classes
callable(x) == x \in Classes \cup Functions
issubclass_Adapter(x) == x \in {"EncCls"}
issubclass_TypeCaster(x) == x \in {"DecCls", "UnknownCaster"}

\* isinstance(x, int)
isinstance_int(x) == x \in {"0", "23", "25", "five", "fortytwo"}

\* keys offered to Adapter.register: the class int, and the int instance 5
SrcArgs == {"int", "five"}
\* keys offered to TypeCaster.register: the oids 0 and 23, and the str '23'
OidArgs == {INVALID_OID, "23", "str_23"}

\* conversions offered to register: a function, a conforming class, a class
\* that is no Adapter / TypeCaster, and the int 42 (not callable)
AdapterArgs == {"enc_fn", "EncCls", "object", "fortytwo"}
CasterArgs == {"dec_fn", "DecCls", "object", "fortytwo"}

\* the keys a Transformer is asked to resolve
SrcTypes == {"int", "str"}
Oids == {"23", TEXT_OID}
AdaptKeys == SrcTypes \X Formats
CastKeys == Oids \X Formats

\* two Transformers; the specifications about one alone construct the first
Transformers == {"t1", "t2"}

VARIABLES
    adapters,        \* scope -> dict (src, format) -> adapter
    casters,         \* scope -> dict (oid, format) -> caster
    nregs,           \* successful register calls so far
    built,           \* Transformer -> constructed?
    connection,      \* Transformer.connection
    cursor,          \* Transformer.cursor
    _adapt_funcs,    \* Transformer._adapt_funcs
    _cast_funcs,     \* Transformer._cast_funcs
    _result,         \* Transformer._result
    _row_casters,    \* Transformer._row_casters
    inits,           \* Transformer -> the stateful instances it has constructed
    bound,           \* Transformer -> the result its row casters were built for
    gen,             \* the cast_row generators
    resolved,        \* Transformer -> what get_*_function first returned per key
    last             \* the last call and what it returned or raised

vars == <<adapters, casters, nregs, built, connection, cursor, _adapt_funcs,
          _cast_funcs, _result, _row_casters, inits, bound, gen, resolved, last>>

regvars == <<adapters, casters, nregs>>
trvars == <<built, connection, cursor, _adapt_funcs, _cast_funcs, _result,
            _row_casters, inits, bound, gen, resolved>>

EmptyDict == [k \in {} |-> None]

(***************************************************************************)
(* _solve_context                                                          *)
(***************************************************************************)
\* variant: a cursor resolves to itself alone, without its connection
_solve_context_cursor_alone(context) ==
    IF context = None
    THEN [connection |-> None, cursor |-> None, err |-> None]
    ELSE IF context \in BaseConnections
    THEN [connection |-> context, cursor |-> None, err |-> None]
    ELSE IF context \in BaseCursors
    THEN [connection |-> None, cursor |-> context, err |-> None]
    ELSE [connection |-> None, cursor |-> None, err |-> "TypeError"]

_solve_context(context) ==
    IF context = None
    THEN [connection |-> None, cursor |-> None, err |-> None]
    ELSE IF context \in BaseConnections
    THEN [connection |-> context, cursor |-> None, err |-> None]
    ELSE IF context \in BaseCursors
    THEN [connection |-> cursor_conn(context), cursor |-> context, err |-> None]
    ELSE [connection |-> None, cursor |-> None, err |-> "TypeError"]

(***************************************************************************)
(* Adapter.register and TypeCaster.register                                *)
(***************************************************************************)
Adapter_register_ok(src, adapter, context) ==
    /\ isinstance_type(src)
    /\ ~ (context # None /\ context \notin (BaseConnections \cup BaseCursors))
    /\ (callable(adapter) \/ (isinstance_type(adapter) /\ issubclass_Adapter(adapter)))

\* variant: the entry is stored into an emptied registry
Adapter_register_via_emptied(op, src, adapter, context, format) ==
    IF Adapter_register_ok(src, adapter, context)
    THEN /\ nregs < MaxRegs
         /\ LET where == IF context # None THEN context ELSE "globals"
            IN adapters' = [adapters EXCEPT ![where] = (<<src, format>> :> adapter)]
         /\ nregs' = nregs + 1
         /\ last' = [op |-> op, src |-> src, conv |-> adapter,
                     context |-> context, fmt |-> format, ret |-> adapter, err |-> None]
         /\ UNCHANGED <<casters, trvars>>
    ELSE /\ last' = [op |-> op, src |-> src, conv |-> adapter,
                     context |-> context, fmt |-> format, ret |-> None,
                     err |-> "TypeError"]
         /\ UNCHANGED <<regvars, trvars>>

\* the body of register, entered through the classmethod named op
Adapter_register_via(op, src, adapter, context, format) ==
    IF Adapter_register_ok(src, adapter, context)
    THEN /\ nregs < MaxRegs
         /\ LET where == IF context # None THEN context ELSE "globals"
            IN adapters' = [adapters EXCEPT ![where] = (<<src, format>> :> adapter) @@ @]
         /\ nregs' = nregs + 1
         /\ last' = [op |-> op, src |-> src, conv |-> adapter,
                     context |-> context, fmt |-> format, ret |-> adapter, err |-> None]
         /\ UNCHANGED <<casters, trvars>>
    ELSE /\ last' = [op |-> op, src |-> src, conv |-> adapter,
                     context |-> context, fmt |-> format, ret |-> None,
                     err |-> "TypeError"]
         /\ UNCHANGED <<regvars, trvars>>

Adapter_register(src, adapter, context, format) ==
    Adapter_register_via("Adapter.register", src, adapter, context, format)

Adapter_register_binary(src, adapter, context) ==
    Adapter_register_via("Adapter.register_binary", src, adapter, context, "BINARY")

\* variant: the text decorator registers under the binary format
Adapter_text_as_binary(src, adapter) ==
    Adapter_register_via("Adapter.text", src, adapter, None, "BINARY")

\* Adapter.text(src)(adapter): text_ calls cls.register(src, adapter) and
\* returns the adapter
Adapter_text(src, adapter) ==
    Adapter_register_via("Adapter.text", src, adapter, None, "TEXT")

\* Adapter.binary(src)(adapter): binary_ calls cls.register_binary(src, adapter)
\* and returns the adapter
Adapter_binary(src, adapter) ==
    Adapter_register_via("Adapter.binary", src, adapter, None, "BINARY")

TypeCaster_register_ok(oid, caster, context) ==
    /\ isinstance_int(oid)
    /\ ~ (context # None /\ context \notin (BaseConnections \cup BaseCursors))
    /\ (callable(caster) \/ (isinstance_type(caster) /\ issubclass_TypeCaster(caster)))

\* variant: the entry is stored into an emptied registry
TypeCaster_register_via_emptied(op, oid, caster, context, format) ==
    IF TypeCaster_register_ok(oid, caster, context)
    THEN /\ nregs < MaxRegs
         /\ LET where == IF context # None THEN context ELSE "globals"
            IN casters' = [casters EXCEPT ![where] = (<<oid, format>> :> caster)]
         /\ nregs' = nregs + 1
         /\ last' = [op |-> op, oid |-> oid, conv |-> caster,
                     context |-> context, fmt |-> format, ret |-> caster, err |-> None]
         /\ UNCHANGED <<adapters, trvars>>
    ELSE /\ last' = [op |-> op, oid |-> oid, conv |-> caster,
                     context |-> context, fmt |-> format, ret |-> None,
                     err |-> "TypeError"]
         /\ UNCHANGED <<regvars, trvars>>

\* the body of register, entered through the classmethod named op
TypeCaster_register_via(op, oid, caster, context, format) ==
    IF TypeCaster_register_ok(oid, caster, context)
    THEN /\ nregs < MaxRegs
         /\ LET where == IF context # None THEN context ELSE "globals"
            IN casters' = [casters EXCEPT ![where] = (<<oid, format>> :> caster) @@ @]
         /\ nregs' = nregs + 1
         /\ last' = [op |-> op, oid |-> oid, conv |-> caster,
                     context |-> context, fmt |-> format, ret |-> caster, err |-> None]
         /\ UNCHANGED <<adapters, trvars>>
    ELSE /\ last' = [op |-> op, oid |-> oid, conv |-> caster,
                     context |-> context, fmt |-> format, ret |-> None,
                     err |-> "TypeError"]
         /\ UNCHANGED <<regvars, trvars>>

TypeCaster_register(oid, caster, context, format) ==
    TypeCaster_register_via("TypeCaster.register", oid, caster, context, format)

TypeCaster_register_binary(oid, caster, context) ==
    TypeCaster_register_via("TypeCaster.register_binary", oid, caster, context, "BINARY")

\* TypeCaster.text(oid)(caster): text_ calls cls.register(oid, caster) and
\* returns the caster
TypeCaster_text(oid, caster) ==
    TypeCaster_register_via("TypeCaster.text", oid, caster, None, "TEXT")

\* TypeCaster.binary(oid)(caster): binary_ calls cls.register_binary(oid, caster)
\* and returns the caster
TypeCaster_binary(oid, caster) ==
    TypeCaster_register_via("TypeCaster.binary", oid, caster, None, "BINARY")

(***************************************************************************)
(* Callables.  A plain function is itself; the bound method of a stateful  *)
(* Adapter / TypeCaster instance carries the instance (which Transformer   *)
(* built it, and its serial number there) and the connection and cursor    *)
(* that Adapter.__init__ / TypeCaster.__init__ resolved from the context.  *)
(***************************************************************************)
NoFunc ==
    [kind |-> "none", conv |-> None, owner |-> None, inst |-> 0,
     connection |-> None, cursor |-> None]

PlainFunc(f) ==
    [kind |-> "func", conv |-> f, owner |-> None, inst |-> 0,
     connection |-> None, cursor |-> None]

\* Adapter.__init__ / TypeCaster.__init__, and the bound method taken from it
BoundMethod(cls, t, serial, context) ==
    [kind |-> "method", conv |-> cls, owner |-> t, inst |-> serial,
     connection |-> _solve_context(context).connection,
     cursor |-> _solve_context(context).cursor]

\* what a Transformer has constructed: the number of instances (the serial
\* number of the latest), and the number per key
NoInits ==
    [n |-> 0, adapter |-> [k \in AdaptKeys |-> 0], caster |-> [k \in CastKeys |-> 0]]

\* nothing resolved yet
NoneResolved == [adapter |-> [k \in AdaptKeys |-> NoFunc], caster |-> [k \in CastKeys |-> NoFunc]]

\* the running state of one call: the instances constructed, the registry
\* lookups made and the conversions invoked
CallState(t) == [inits |-> inits[t], lookups |-> 0, calls |-> <<>>]

(***************************************************************************)
(* Transformer.lookup_adapter and Transformer.lookup_caster                *)
(***************************************************************************)
\* variant: the connection's registry is consulted before the cursor's
lookup_adapter_conn_first(t, src, fmt) ==
    LET key == <<src, fmt>>
        cur == cursor[t]
        conn == connection[t]
    IN  IF conn # None /\ key \in DOMAIN adapters[conn]
        THEN [ret |-> adapters[conn][key], err |-> None]
        ELSE IF cur # None /\ key \in DOMAIN adapters[cur]
        THEN [ret |-> adapters[cur][key], err |-> None]
        ELSE IF key \in DOMAIN adapters["globals"]
        THEN [ret |-> adapters["globals"][key], err |-> None]
        ELSE [ret |-> None,
              err |-> "ProgrammingError: cannot adapt type " \o src \o " to format " \o fmt]

\* variant: a key missing everywhere is looked up under the other format
lookup_adapter_other_format(t, src, fmt) ==
    LET key == <<src, fmt>>
        other == <<src, IF fmt = "TEXT" THEN "BINARY" ELSE "TEXT">>
        cur == cursor[t]
        conn == connection[t]
    IN  IF cur # None /\ key \in DOMAIN adapters[cur]
        THEN [ret |-> adapters[cur][key], err |-> None]
        ELSE IF conn # None /\ key \in DOMAIN adapters[conn]
        THEN [ret |-> adapters[conn][key], err |-> None]
        ELSE IF key \in DOMAIN adapters["globals"]
        THEN [ret |-> adapters["globals"][key], err |-> None]
        ELSE IF other \in DOMAIN adapters["globals"]
        THEN [ret |-> adapters["globals"][other], err |-> None]
        ELSE [ret |-> None,
              err |-> "ProgrammingError: cannot adapt type " \o src \o " to format " \o fmt]

lookup_adapter(t, src, fmt) ==
    LET key == <<src, fmt>>
        cur == cursor[t]
        conn == connection[t]
    IN  IF cur # None /\ key \in DOMAIN adapters[cur]
        THEN [ret |-> adapters[cur][key], err |-> None]
        ELSE IF conn # None /\ key \in DOMAIN adapters[conn]
        THEN [ret |-> adapters[conn][key], err |-> None]
        ELSE IF key \in DOMAIN adapters["globals"]
        THEN [ret |-> adapters["globals"][key], err |-> None]
        ELSE [ret |-> None,
              err |-> "ProgrammingError: cannot adapt type " \o src \o " to format " \o fmt]

lookup_caster(t, oid, fmt) ==
    LET key == <<oid, fmt>>
        cur == cursor[t]
        conn == connection[t]
    IN  IF cur # None /\ key \in DOMAIN casters[cur]
        THEN [ret |-> casters[cur][key], err |-> None]
        ELSE IF conn # None /\ key \in DOMAIN casters[conn]
        THEN [ret |-> casters[conn][key], err |-> None]
        ELSE IF key \in DOMAIN casters["globals"]
        THEN [ret |-> casters["globals"][key], err |-> None]
        ELSE IF <<INVALID_OID, fmt>> \in DOMAIN casters["globals"]
        THEN [ret |-> casters["globals"][<<INVALID_OID, fmt>>], err |-> None]
        ELSE [ret |-> None, err |-> "KeyError"]

(***************************************************************************)
(* Transformer.get_adapt_function and Transformer.get_cast_function.       *)
(* Neither stores what it resolved into _adapt_funcs / _cast_funcs.        *)
(***************************************************************************)
\* variant: the stateful adapter is constructed with the Transformer's
\* cursor when it has one
get_adapt_function_with_cursor(t, src, fmt, cs) ==
    IF <<src, fmt>> \in DOMAIN _adapt_funcs[t]
    THEN [ret |-> _adapt_funcs[t][<<src, fmt>>], err |-> None, conv |-> None, cs |-> cs]
    ELSE LET adapter == lookup_adapter(t, src, fmt)
             cs1 == [cs EXCEPT !.lookups = @ + 1]
         IN  IF adapter.err # None
             THEN [ret |-> NoFunc, err |-> adapter.err, conv |-> None, cs |-> cs1]
             ELSE IF isinstance_type(adapter.ret)
             THEN IF issubclass_Adapter(adapter.ret)
                  THEN [ret |-> BoundMethod(adapter.ret, t, cs.inits.n + 1,
                                            IF cursor[t] # None THEN cursor[t]
                                            ELSE connection[t]),
                        err |-> None, conv |-> adapter.ret,
                        cs |-> [cs1 EXCEPT !.inits.n = @ + 1,
                                           !.inits.adapter[<<src, fmt>>] = @ + 1]]
                  ELSE [ret |-> NoFunc, err |-> "TypeError", conv |-> adapter.ret, cs |-> cs1]
             ELSE [ret |-> PlainFunc(adapter.ret), err |-> None, conv |-> adapter.ret,
                   cs |-> cs1]

get_adapt_function(t, src, fmt, cs) ==
    IF <<src, fmt>> \in DOMAIN _adapt_funcs[t]
    THEN [ret |-> _adapt_funcs[t][<<src, fmt>>], err |-> None, conv |-> None, cs |-> cs]
    ELSE LET adapter == lookup_adapter(t, src, fmt)
             cs1 == [cs EXCEPT !.lookups = @ + 1]
         IN  IF adapter.err # None
             THEN [ret |-> NoFunc, err |-> adapter.err, conv |-> None, cs |-> cs1]
             ELSE IF isinstance_type(adapter.ret)
             THEN IF issubclass_Adapter(adapter.ret)
                  THEN [ret |-> BoundMethod(adapter.ret, t, cs.inits.n + 1, connection[t]),
                        err |-> None, conv |-> adapter.ret,
                        cs |-> [cs1 EXCEPT !.inits.n = @ + 1,
                                           !.inits.adapter[<<src, fmt>>] = @ + 1]]
                  ELSE \* object(src, connection) raises
                       [ret |-> NoFunc, err |-> "TypeError", conv |-> adapter.ret, cs |-> cs1]
             ELSE [ret |-> PlainFunc(adapter.ret), err |-> None, conv |-> adapter.ret,
                   cs |-> cs1]

\* variant: the stateful caster is constructed without the connection
get_cast_function_no_context(t, oid, fmt, cs) ==
    IF <<oid, fmt>> \in DOMAIN _cast_funcs[t]
    THEN [ret |-> _cast_funcs[t][<<oid, fmt>>], err |-> None, conv |-> None, cs |-> cs]
    ELSE LET caster == lookup_caster(t, oid, fmt)
             cs1 == [cs EXCEPT !.lookups = @ + 1]
         IN  IF caster.err # None
             THEN [ret |-> NoFunc, err |-> caster.err, conv |-> None, cs |-> cs1]
             ELSE IF isinstance_type(caster.ret)
             THEN IF issubclass_TypeCaster(caster.ret)
                  THEN [ret |-> BoundMethod(caster.ret, t, cs.inits.n + 1, None),
                        err |-> None, conv |-> caster.ret,
                        cs |-> [cs1 EXCEPT !.inits.n = @ + 1,
                                           !.inits.caster[<<oid, fmt>>] = @ + 1]]
                  ELSE [ret |-> NoFunc, err |-> "TypeError", conv |-> caster.ret, cs |-> cs1]
             ELSE [ret |-> PlainFunc(caster.ret), err |-> None, conv |-> caster.ret,
                   cs |-> cs1]

get_cast_function(t, oid, fmt, cs) ==
    IF <<oid, fmt>> \in DOMAIN _cast_funcs[t]
    THEN [ret |-> _cast_funcs[t][<<oid, fmt>>], err |-> None, conv |-> None, cs |-> cs]
    ELSE LET caster == lookup_caster(t, oid, fmt)
             cs1 == [cs EXCEPT !.lookups = @ + 1]
         IN  IF caster.err # None
             THEN [ret |-> NoFunc, err |-> caster.err, conv |-> None, cs |-> cs1]
             ELSE IF isinstance_type(caster.ret)
             THEN IF issubclass_TypeCaster(caster.ret)
                  THEN [ret |-> BoundMethod(caster.ret, t, cs.inits.n + 1, connection[t]),
                        err |-> None, conv |-> caster.ret,
                        cs |-> [cs1 EXCEPT !.inits.n = @ + 1,
                                           !.inits.caster[<<oid, fmt>>] = @ + 1]]
                  ELSE \* object(oid, connection) raises
                       [ret |-> NoFunc, err |-> "TypeError", conv |-> caster.ret, cs |-> cs1]
             ELSE [ret |-> PlainFunc(caster.ret), err |-> None, conv |-> caster.ret,
                   cs |-> cs1]

(***************************************************************************)
(* Values, and what the conversions return.                                *)
(***************************************************************************)
\* the values offered for adaptation: None, the int 5 and the str 'abc'
Objs == {None, "five", "abc"}

\* type(obj)
type(obj) == IF obj = "five" THEN "int" ELSE "str"

\* func(obj) of an adapter: enc_fn returns bytes alone, EncCls.adapt returns
\* the bytes with the oid of int4
call_adapter(func, obj) ==
    IF func.kind = "method"
    THEN [tuple |-> TRUE, data |-> func.conv \o ".adapt(" \o obj \o ")", oid |-> "23"]
    ELSE [tuple |-> FALSE, data |-> func.conv \o "(" \o obj \o ")", oid |-> None]

\* func(data) of a caster
call_caster(func, data) ==
    IF func.conv = "cast_unknown"
    THEN data
    ELSE IF func.conv = "UnknownCaster"
    THEN \* UnknownCaster.__init__ chose self.decode, cast applies it
         LET codec == IF func.connection # None
                      THEN connection_codec(func.connection)
                      ELSE "utf8"
         IN  "str(" \o data \o "," \o codec \o ")"
    ELSE IF func.kind = "method"
    THEN func.conv \o ".cast(" \o data \o ")"
    ELSE func.conv \o "(" \o data \o ")"

(***************************************************************************)
(* Transformer.adapt, Transformer.adapt_sequence and Transformer.cast      *)
(***************************************************************************)
NoData == [tuple |-> FALSE, data |-> None, oid |-> None]

\* variant: None is adapted like any other object
adapt_none_as_object(t, obj, fmt, cs) ==
    LET src == type(obj)
        func == get_adapt_function(t, src, fmt, cs)
    IN  IF func.err # None
        THEN [ret |-> NoData, err |-> func.err, cs |-> func.cs]
        ELSE [ret |-> call_adapter(func.ret, obj), err |-> None,
              cs |-> [func.cs EXCEPT !.calls = Append(@, [f |-> func.ret, arg |-> obj])]]

adapt(t, obj, fmt, cs) ==
    IF obj = None
    THEN [ret |-> [tuple |-> TRUE, data |-> None, oid |-> TEXT_OID], err |-> None, cs |-> cs]
    ELSE LET src == type(obj)
             func == get_adapt_function(t, src, fmt, cs)
         IN  IF func.err # None
             THEN [ret |-> NoData, err |-> func.err, cs |-> func.cs]
             ELSE [ret |-> call_adapter(func.ret, obj), err |-> None,
                   cs |-> [func.cs EXCEPT !.calls = Append(@, [f |-> func.ret, arg |-> obj])]]

\* zip(objs, fmts)
zip_len(objs, fmts) == IF Len(objs) < Len(fmts) THEN Len(objs) ELSE Len(fmts)

\* variant: the oid an adapter returns with the bytes is dropped
RECURSIVE adapt_sequence_loop_text_oid(_, _, _, _, _)
adapt_sequence_loop_text_oid(t, objs, fmts, i, acc) ==
    IF i > zip_len(objs, fmts)
    THEN acc
    ELSE LET data == adapt(t, objs[i], fmts[i], acc.cs)
         IN  IF data.err # None
             THEN [acc EXCEPT !.err = data.err, !.cs = data.cs]
             ELSE adapt_sequence_loop_text_oid(t, objs, fmts, i + 1,
                      [out |-> Append(acc.out, data.ret.data),
                       types |-> Append(acc.types, TEXT_OID),
                       err |-> None, cs |-> data.cs])

RECURSIVE adapt_sequence_loop(_, _, _, _, _)
adapt_sequence_loop(t, objs, fmts, i, acc) ==
    IF i > zip_len(objs, fmts)
    THEN acc
    ELSE LET data == adapt(t, objs[i], fmts[i], acc.cs)
         IN  IF data.err # None
             THEN [acc EXCEPT !.err = data.err, !.cs = data.cs]
             ELSE adapt_sequence_loop(t, objs, fmts, i + 1,
                      [out |-> Append(acc.out, data.ret.data),
                       types |-> Append(acc.types,
                                        IF data.ret.tuple THEN data.ret.oid ELSE TEXT_OID),
                       err |-> None, cs |-> data.cs])

adapt_sequence(t, objs, fmts, cs) ==
    adapt_sequence_loop(t, objs, fmts, 1,
                        [out |-> <<>>, types |-> <<>>, err |-> None, cs |-> cs])

cast(t, data, oid, fmt, cs) ==
    IF data # None
    THEN LET f == get_cast_function(t, oid, fmt, cs)
         IN  IF f.err # None
             THEN [ret |-> None, err |-> f.err, cs |-> f.cs]
             ELSE [ret |-> call_caster(f.ret, data), err |-> None,
                   cs |-> [f.cs EXCEPT !.calls = Append(@, [f |-> f.ret, arg |-> data])]]
    ELSE [ret |-> None, err |-> None, cs |-> cs]

(***************************************************************************)
(* The results (pq.PGresult) handed to the Transformer.                    *)
(***************************************************************************)
Results == {"res1", "res2"}

\* res1 has the columns (text, binary format) and (int4, text format);
\* res2 has one column (text, text format)
ftypes(result) == IF result = "res1" THEN <<TEXT_OID, "23">> ELSE <<TEXT_OID>>
fformats(result) == IF result = "res1" THEN <<"BINARY", "TEXT">> ELSE <<"TEXT">>

\* the rows: a value is bytes, or None for NULL
rows(result) ==
    IF result = "res1"
    THEN << <<"bxyz", None>>, <<None, "b42">> >>
    ELSE << <<"babc">> >>

\* columns and rows are counted from 0
nfields(result) == Len(ftypes(result))
ftype(result, c) == ftypes(result)[c + 1]
fformat(result, c) == fformats(result)[c + 1]
\* like PQgetvalue, get_value has no bytes to give for a column out of range
get_value(result, n, col) ==
    IF col < nfields(result) THEN rows(result)[n + 1][col + 1] ELSE None
RowNumbers(result) == 0 .. (Len(rows(result)) - 1)

(***************************************************************************)
(* The setter of Transformer.result.  It never assigns _result.            *)
(***************************************************************************)
\* variant: every column is resolved with the type of the first column
RECURSIVE result_setter_loop_first_type(_, _, _, _)
result_setter_loop_first_type(t, result, c, acc) ==
    IF c >= nfields(result)
    THEN acc
    ELSE LET oid == ftype(result, 0)
             fmt == fformat(result, c)
             func == get_cast_function(t, oid, fmt, acc.cs)
         IN  IF func.err # None
             THEN [acc EXCEPT !.err = func.err, !.cs = func.cs]
             ELSE result_setter_loop_first_type(t, result, c + 1,
                      [rc |-> Append(acc.rc, func.ret), err |-> None, cs |-> func.cs])

RECURSIVE result_setter_loop(_, _, _, _)
result_setter_loop(t, result, c, acc) ==
    IF c >= nfields(result)
    THEN acc
    ELSE LET oid == ftype(result, c)
             fmt == fformat(result, c)
             func == get_cast_function(t, oid, fmt, acc.cs)
         IN  IF func.err # None
             THEN [acc EXCEPT !.err = func.err, !.cs = func.cs]
             ELSE result_setter_loop(t, result, c + 1,
                      [rc |-> Append(acc.rc, func.ret), err |-> None, cs |-> func.cs])

result_setter(t, result, cs) ==
    IF _result[t] = result
    THEN [rc |-> _row_casters[t], err |-> None, cs |-> cs]
    ELSE result_setter_loop(t, result, 0, [rc |-> <<>>, err |-> None, cs |-> cs])

(***************************************************************************)
(* The operations of a Transformer, as the caller invokes them.            *)
(***************************************************************************)
\* two generators; the specifications about one alone create the first
Generators == {"g1", "g2"}

NoGen ==
    [status |-> "none", t |-> None, result |-> None, n |-> 0,
     casters |-> <<>>, col |-> 0]

\* Transformer.__init__
Transformer_init(t, context) ==
    /\ ~ built[t]
    /\ LET s == _solve_context(context)
       IN  IF s.err # None
           THEN /\ last' = [op |-> "Transformer", t |-> t, context |-> context,
                            err |-> s.err]
                /\ UNCHANGED <<regvars, trvars>>
           ELSE /\ built' = [built EXCEPT ![t] = TRUE]
                /\ connection' = [connection EXCEPT ![t] = s.connection]
                /\ cursor' = [cursor EXCEPT ![t] = s.cursor]
                /\ _adapt_funcs' = [_adapt_funcs EXCEPT ![t] = EmptyDict]
                /\ _cast_funcs' = [_cast_funcs EXCEPT ![t] = EmptyDict]
                /\ _result' = [_result EXCEPT ![t] = None]
                /\ _row_casters' = [_row_casters EXCEPT ![t] = <<>>]
                /\ last' = [op |-> "Transformer", t |-> t, context |-> context,
                            err |-> None]
                /\ UNCHANGED <<regvars, inits, bound, gen, resolved>>

\* cls(src, context), for a subclass of Adapter: Adapter.__init__
Adapter_init(cls, src, context) ==
    LET s == _solve_context(context)
    IN  /\ last' = [op |-> "Adapter", cls |-> cls, key |-> src, context |-> context,
                    connection |-> s.connection, cursor |-> s.cursor, err |-> s.err]
        /\ UNCHANGED <<regvars, trvars>>

\* cls(oid, context), for a subclass of TypeCaster: TypeCaster.__init__
TypeCaster_init(cls, oid, context) ==
    LET s == _solve_context(context)
    IN  /\ last' = [op |-> "TypeCaster", cls |-> cls, key |-> oid, context |-> context,
                    connection |-> s.connection, cursor |-> s.cursor, err |-> s.err]
        /\ UNCHANGED <<regvars, trvars>>

\* what every call on a Transformer leaves alone
CallFrame == UNCHANGED <<regvars, built, connection, cursor, _adapt_funcs,
                         _cast_funcs, _result>>

\* the first callable a key was resolved to is remembered
Remember(first, ret, err) == IF err = None /\ first = NoFunc THEN ret ELSE first

\* get_adapt_function; with `track`, what it returns is remembered
GetAdaptFunctionCall(t, src, fmt, track) ==
    /\ built[t]
    /\ LET r == get_adapt_function(t, src, fmt, CallState(t))
       IN  /\ r.cs.inits.n <= MaxInst
           /\ inits' = [inits EXCEPT ![t] = r.cs.inits]
           /\ resolved' = IF track
                          THEN [resolved EXCEPT ![t].adapter[<<src, fmt>>] =
                                                    Remember(@, r.ret, r.err)]
                          ELSE resolved
           /\ last' = [op |-> "get_adapt_function", t |-> t, src |-> src, fmt |-> fmt,
                       ret |-> r.ret, conv |-> r.conv, err |-> r.err,
                       lookups |-> r.cs.lookups, calls |-> r.cs.calls,
                       inits |-> r.cs.inits.n - inits[t].n]
    /\ CallFrame
    /\ UNCHANGED <<_row_casters, bound, gen>>

GetAdaptFunction(t, src, fmt) == GetAdaptFunctionCall(t, src, fmt, FALSE)

\* get_cast_function; with `track`, what it returns is remembered
GetCastFunctionCall(t, oid, fmt, track) ==
    /\ built[t]
    /\ LET r == get_cast_function(t, oid, fmt, CallState(t))
       IN  /\ r.cs.inits.n <= MaxInst
           /\ inits' = [inits EXCEPT ![t] = r.cs.inits]
           /\ resolved' = IF track
                          THEN [resolved EXCEPT ![t].caster[<<oid, fmt>>] =
                                                    Remember(@, r.ret, r.err)]
                          ELSE resolved
           /\ last' = [op |-> "get_cast_function", t |-> t, oid |-> oid, fmt |-> fmt,
                       ret |-> r.ret, conv |-> r.conv, err |-> r.err,
                       lookups |-> r.cs.lookups, calls |-> r.cs.calls,
                       inits |-> r.cs.inits.n - inits[t].n]
    /\ CallFrame
    /\ UNCHANGED <<_row_casters, bound, gen>>

GetCastFunction(t, oid, fmt) == GetCastFunctionCall(t, oid, fmt, FALSE)

Adapt(t, obj, fmt) ==
    /\ built[t]
    /\ LET r == adapt(t, obj, fmt, CallState(t))
       IN  /\ r.cs.inits.n <= MaxInst
           /\ inits' = [inits EXCEPT ![t] = r.cs.inits]
           /\ last' = [op |-> "adapt", t |-> t, obj |-> obj, fmt |-> fmt,
                       ret |-> r.ret, err |-> r.err,
                       lookups |-> r.cs.lookups, calls |-> r.cs.calls,
                       inits |-> r.cs.inits.n - inits[t].n]
    /\ CallFrame
    /\ UNCHANGED <<_row_casters, bound, gen, resolved>>

\* the argument lists offered to adapt_sequence
ObjSeqs == {<<>>, <<None>>, <<"abc">>, <<"five", None>>, <<"five", "five">>}
FmtSeqs == {<<>>, <<"TEXT">>, <<"BINARY", "TEXT">>, <<"TEXT", "TEXT">>}

AdaptSequence(t, objs, fmts) ==
    /\ built[t]
    /\ LET r == adapt_sequence(t, objs, fmts, CallState(t))
       IN  /\ r.cs.inits.n <= MaxInst
           /\ inits' = [inits EXCEPT ![t] = r.cs.inits]
           /\ last' = [op |-> "adapt_sequence", t |-> t, objs |-> objs, fmts |-> fmts,
                       out |-> IF r.err = None THEN r.out ELSE <<>>,
                       types |-> IF r.err = None THEN r.types ELSE <<>>, err |-> r.err,
                       lookups |-> r.cs.lookups, calls |-> r.cs.calls,
                       inits |-> r.cs.inits.n - inits[t].n]
    /\ CallFrame
    /\ UNCHANGED <<_row_casters, bound, gen, resolved>>

\* the bytes offered to cast
Datas == {None, "b42"}

Cast(t, data, oid, fmt) ==
    /\ built[t]
    /\ LET r == cast(t, data, oid, fmt, CallState(t))
       IN  /\ r.cs.inits.n <= MaxInst
           /\ inits' = [inits EXCEPT ![t] = r.cs.inits]
           /\ last' = [op |-> "cast", t |-> t, data |-> data, oid |-> oid, fmt |-> fmt,
                       ret |-> r.ret, err |-> r.err,
                       lookups |-> r.cs.lookups, calls |-> r.cs.calls,
                       inits |-> r.cs.inits.n - inits[t].n]
    /\ CallFrame
    /\ UNCHANGED <<_row_casters, bound, gen, resolved>>

\* transformer.result (the getter)
GetResult(t) ==
    /\ built[t]
    /\ last' = [op |-> "result.get", t |-> t, ret |-> _result[t], err |-> None]
    /\ CallFrame
    /\ UNCHANGED <<_row_casters, inits, bound, gen, resolved>>

\* variant: the list of row casters is one list shared by every Transformer
SetResult_shared_list(t, result) ==
    /\ built[t]
    /\ LET r == result_setter(t, result, CallState(t))
       IN  /\ r.cs.inits.n <= MaxInst
           /\ inits' = [inits EXCEPT ![t] = r.cs.inits]
           /\ _row_casters' = [u \in Transformers |-> r.rc]
           /\ bound' = [bound EXCEPT ![t] = IF _result[t] = result THEN @
                                            ELSE IF r.err = None THEN result ELSE None]
           /\ last' = [op |-> "result", t |-> t, result |-> result, err |-> r.err,
                       rebind |-> bound[t] = result, rc_same |-> r.rc = _row_casters[t],
                       lookups |-> r.cs.lookups, calls |-> r.cs.calls,
                       inits |-> r.cs.inits.n - inits[t].n]
    /\ CallFrame
    /\ UNCHANGED <<gen, resolved>>

\* transformer.result = result
SetResult(t, result) ==
    /\ built[t]
    /\ LET r == result_setter(t, result, CallState(t))
       IN  /\ r.cs.inits.n <= MaxInst
           /\ inits' = [inits EXCEPT ![t] = r.cs.inits]
           /\ _row_casters' = [_row_casters EXCEPT ![t] = r.rc]
           /\ bound' = [bound EXCEPT ![t] = IF _result[t] = result THEN @
                                            ELSE IF r.err = None THEN result ELSE None]
           /\ last' = [op |-> "result", t |-> t, result |-> result, err |-> r.err,
                       rebind |-> bound[t] = result, rc_same |-> r.rc = _row_casters[t],
                       lookups |-> r.cs.lookups, calls |-> r.cs.calls,
                       inits |-> r.cs.inits.n - inits[t].n]
    /\ CallFrame
    /\ UNCHANGED <<gen, resolved>>

\* transformer.cast_row(result, n): a generator, nothing runs until next()
CastRow(g, t, result, n) ==
    /\ built[t]
    /\ gen' = [gen EXCEPT ![g] = [NoGen EXCEPT !.status = "created", !.t = t,
                                               !.result = result, !.n = n]]
    /\ last' = [op |-> "cast_row", t |-> t, g |-> g, result |-> result, n |-> n,
                err |-> None]
    /\ CallFrame
    /\ UNCHANGED <<_row_casters, inits, bound, resolved>>

\* one pass of the loop of cast_row over the list it iterates, from column col
\* variant: the row caster is called on None as well
cast_row_step_cast_none(row_casters, result, n, col, cs) ==
    IF col >= Len(row_casters)
    THEN [stop |-> TRUE, v |-> None, cs |-> cs]
    ELSE LET func == row_casters[col + 1]
             v == get_value(result, n, col)
         IN  [stop |-> FALSE, v |-> call_caster(func, v),
              cs |-> [cs EXCEPT !.calls = Append(@, [f |-> func, arg |-> v])]]

cast_row_step(row_casters, result, n, col, cs) ==
    IF col >= Len(row_casters)
    THEN [stop |-> TRUE, v |-> None, cs |-> cs]
    ELSE LET func == row_casters[col + 1]
             v == get_value(result, n, col)
         IN  IF v # None
             THEN [stop |-> FALSE, v |-> call_caster(func, v),
                   cs |-> [cs EXCEPT !.calls = Append(@, [f |-> func, arg |-> v])]]
             ELSE [stop |-> FALSE, v |-> v, cs |-> cs]

\* variant: every pass of the loop reads the Transformer's current list of
\* row casters, not the list the loop started on
GenNext_current_list(g) ==
    LET s == gen[g]
        t == s.t
    IN  /\ s.status \in {"created", "running"}
        /\ LET first == s.status = "created"
               r == IF first
                    THEN result_setter(t, s.result, CallState(t))
                    ELSE [rc |-> _row_casters[t], err |-> None, cs |-> CallState(t)]
               step == cast_row_step(r.rc, s.result, s.n, s.col, r.cs)
               raised == r.err # None
               done == raised \/ step.stop
           IN  /\ r.cs.inits.n <= MaxInst
               /\ inits' = [inits EXCEPT ![t] = r.cs.inits]
               /\ _row_casters' = [_row_casters EXCEPT ![t] = IF first THEN r.rc ELSE @]
               /\ bound' = [bound EXCEPT ![t] = IF ~ first THEN @
                                                ELSE IF raised THEN None ELSE s.result]
               /\ gen' = [gen EXCEPT ![g] =
                            IF done
                            THEN NoGen
                            ELSE [s EXCEPT !.status = "running", !.casters = r.rc,
                                           !.col = @ + 1]]
               /\ last' = [op |-> "next", t |-> t, g |-> g, result |-> s.result,
                           n |-> s.n, col |-> s.col, first |-> first,
                           stop |-> done /\ ~ raised, v |-> IF done THEN None ELSE step.v,
                           err |-> r.err, rebind |-> first /\ bound[t] = s.result,
                           rc_same |-> first => r.rc = _row_casters[t],
                           lookups |-> r.cs.lookups,
                           calls |-> IF raised THEN r.cs.calls ELSE step.cs.calls,
                           inits |-> r.cs.inits.n - inits[t].n]
        /\ CallFrame
        /\ UNCHANGED resolved

\* next(generator): the first one runs cast_row up to its first yield (the
\* assignment to self.result included), the later ones up to the next yield
GenNext(g) ==
    LET s == gen[g]
        t == s.t
    IN  /\ s.status \in {"created", "running"}
        /\ LET first == s.status = "created"
               r == IF first
                    THEN result_setter(t, s.result, CallState(t))
                    ELSE [rc |-> s.casters, err |-> None, cs |-> CallState(t)]
               step == cast_row_step(r.rc, s.result, s.n, s.col, r.cs)
               raised == r.err # None
               done == raised \/ step.stop
           IN  /\ r.cs.inits.n <= MaxInst
               /\ inits' = [inits EXCEPT ![t] = r.cs.inits]
               /\ _row_casters' = [_row_casters EXCEPT ![t] = IF first THEN r.rc ELSE @]
               /\ bound' = [bound EXCEPT ![t] = IF ~ first THEN @
                                                ELSE IF raised THEN None ELSE s.result]
               /\ gen' = [gen EXCEPT ![g] =
                            IF done
                            THEN NoGen
                            ELSE [s EXCEPT !.status = "running", !.casters = r.rc,
                                           !.col = @ + 1]]
               /\ last' = [op |-> "next", t |-> t, g |-> g, result |-> s.result,
                           n |-> s.n, col |-> s.col, first |-> first,
                           stop |-> done /\ ~ raised, v |-> IF done THEN None ELSE step.v,
                           err |-> r.err, rebind |-> first /\ bound[t] = s.result,
                           rc_same |-> first => r.rc = _row_casters[t],
                           lookups |-> r.cs.lookups,
                           calls |-> IF raised THEN r.cs.calls ELSE step.cs.calls,
                           inits |-> r.cs.inits.n - inits[t].n]
        /\ CallFrame
        /\ UNCHANGED resolved

(***************************************************************************)
(* The state after the module is loaded: the two fallback casters are      *)
(* registered on INVALID_OID, nothing else is.                             *)
(***************************************************************************)
Init ==
    /\ adapters = [s \in Scopes |-> EmptyDict]
    /\ casters = [s \in Scopes |->
                    IF s = "globals"
                    THEN (<<INVALID_OID, "TEXT">> :> "UnknownCaster")
                         @@ (<<INVALID_OID, "BINARY">> :> "cast_unknown")
                    ELSE EmptyDict]
    /\ nregs = 0
    /\ built = [t \in Transformers |-> FALSE]
    /\ connection = [t \in Transformers |-> None]
    /\ cursor = [t \in Transformers |-> None]
    /\ _adapt_funcs = [t \in Transformers |-> EmptyDict]
    /\ _cast_funcs = [t \in Transformers |-> EmptyDict]
    /\ _result = [t \in Transformers |-> None]
    /\ _row_casters = [t \in Transformers |-> <<>>]
    /\ inits = [t \in Transformers |-> NoInits]
    /\ resolved = [t \in Transformers |-> NoneResolved]
    /\ bound = [t \in Transformers |-> None]
    /\ gen = [g \in Generators |-> NoGen]
    /\ last = [op |-> "import", err |-> None]

Register ==
    \/ \E src \in SrcArgs, adapter \in AdapterArgs, context \in Contexts, format \in Formats :
           Adapter_register(src, adapter, context, format)
    \/ \E oid \in OidArgs, caster \in CasterArgs, context \in Contexts, format \in Formats :
           TypeCaster_register(oid, caster, context, format)
    \/ \E src \in SrcArgs, adapter \in AdapterArgs, context \in Contexts :
           Adapter_register_binary(src, adapter, context)
    \/ \E oid \in OidArgs, caster \in CasterArgs, context \in Contexts :
           TypeCaster_register_binary(oid, caster, context)
    \/ \E src \in SrcArgs, adapter \in AdapterArgs : Adapter_text(src, adapter)
    \/ \E src \in SrcArgs, adapter \in AdapterArgs : Adapter_binary(src, adapter)
    \/ \E oid \in OidArgs, caster \in CasterArgs : TypeCaster_text(oid, caster)
    \/ \E oid \in OidArgs, caster \in CasterArgs : TypeCaster_binary(oid, caster)

Construct == \E t \in Transformers, context \in Contexts : Transformer_init(t, context)

Instantiate ==
    \/ \E cls \in {"EncCls"}, src \in SrcTypes, context \in Contexts :
           Adapter_init(cls, src, context)
    \/ \E cls \in {"DecCls", "UnknownCaster"}, oid \in Oids, context \in Contexts :
           TypeCaster_init(cls, oid, context)

Resolve ==
    \/ \E t \in Transformers, src \in SrcTypes, fmt \in Formats : GetAdaptFunction(t, src, fmt)
    \/ \E t \in Transformers, oid \in Oids, fmt \in Formats : GetCastFunction(t, oid, fmt)

Encode ==
    \/ \E t \in Transformers, obj \in Objs, fmt \in Formats : Adapt(t, obj, fmt)
    \/ \E t \in Transformers, objs \in ObjSeqs, fmts \in FmtSeqs : AdaptSequence(t, objs, fmts)

Decode ==
    \/ \E t \in Transformers, data \in Datas, oid \in Oids, fmt \in Formats :
           Cast(t, data, oid, fmt)
    \/ \E t \in Transformers : GetResult(t)
    \/ \E t \in Transformers, result \in Results \cup {None} : SetResult(t, result)
    \/ \E g \in Generators, t \in Transformers, result \in Results :
           \E n \in RowNumbers(result) : CastRow(g, t, result, n)
    \/ \E g \in Generators : GenNext(g)

\* the whole system: any call, with any argument, at any time
Next == Register \/ Construct \/ Instantiate \/ Resolve \/ Encode \/ Decode

Spec == Init /\ [][Next]_vars

(***************************************************************************)
(* The specifications that are checked.  Each is the system restricted to  *)
(* the calls of one area and to registrations under a few keys, so that    *)
(* its states can be enumerated: every behaviour of each is a behaviour    *)
(* of Spec.                                                                *)
(***************************************************************************)
Scope == {None, "conn1", "cur1"}

\* one Transformer is constructed, with any context
ConstructOne == \E context \in Contexts : Transformer_init("t1", context)

\* resolution: conversions registered for int and for oid 23 in text format,
\* resolved for every type, oid and format
RegisterText ==
    \/ \E adapter \in {"enc_fn", "EncCls"}, context \in Scope :
           Adapter_register("int", adapter, context, "TEXT")
    \/ \E caster \in {"dec_fn", "DecCls"}, context \in Scope :
           TypeCaster_register("23", caster, context, "TEXT")

NextLookup == RegisterText \/ ConstructOne \/ Resolve

SpecLookup == Init /\ [][NextLookup]_vars

\* caching: conversions registered for int and oid 23 in text format,
\* globally or on the cursor, and that one key of each kind resolved again
\* and again, what it resolved to first being remembered
RegisterOneKey ==
    \/ \E adapter \in {"enc_fn", "EncCls"}, context \in {None, "cur1"} :
           Adapter_register("int", adapter, context, "TEXT")
    \/ \E caster \in {"dec_fn", "DecCls"}, context \in {None, "cur1"} :
           TypeCaster_register("23", caster, context, "TEXT")

NextCache ==
    \/ RegisterOneKey
    \/ ConstructOne
    \/ \E t \in Transformers : GetAdaptFunctionCall(t, "int", "TEXT", TRUE)
    \/ \E t \in Transformers : GetCastFunctionCall(t, "23", "TEXT", TRUE)

SpecCache == Init /\ [][NextCache]_vars

\* encoding: adapters registered for int in either format
RegisterAdapter ==
    \E adapter \in {"enc_fn", "EncCls"}, context \in Scope, format \in Formats :
        Adapter_register("int", adapter, context, format)

\* the calls of adapt_sequence made: the empty call, lists of equal length
\* with and without None, and a list of formats shorter than the values
SeqArgs ==
    { << <<>>, <<>> >>,
      << <<"five", None>>, <<"BINARY", "TEXT">> >>,
      << <<None, "five">>, <<"TEXT", "TEXT">> >>,
      << <<"abc">>, <<"TEXT">> >>,
      << <<"five", "five">>, <<"TEXT">> >> }

NextEncode ==
    \/ RegisterAdapter
    \/ ConstructOne
    \/ \E t \in Transformers, obj \in Objs, fmt \in Formats : Adapt(t, obj, fmt)
    \/ \E t \in Transformers, a \in SeqArgs : AdaptSequence(t, a[1], a[2])

SpecEncode == Init /\ [][NextEncode]_vars

\* decoding: casters registered for oid 23 in text format, and a new
\* fallback caster registered on INVALID_OID
RegisterCaster ==
    \/ \E caster \in {"dec_fn", "DecCls"}, context \in Scope :
           TypeCaster_register("23", caster, context, "TEXT")
    \/ \E caster \in {"dec_fn", "object"}, format \in Formats :
           TypeCaster_register(INVALID_OID, caster, None, format)

NextDecode ==
    \/ RegisterCaster
    \/ ConstructOne
    \/ \E t \in Transformers, oid \in Oids, fmt \in Formats : GetCastFunction(t, oid, fmt)
    \/ \E t \in Transformers, data \in Datas, oid \in Oids, fmt \in Formats :
           Cast(t, data, oid, fmt)

SpecDecode == Init /\ [][NextDecode]_vars

\* rows: casters registered for oid 23 in text format on the cursor,
\* Transformers with and without that cursor, and the calls that bind a
\* result and decode its rows
RegisterRows ==
    \E caster \in {"dec_fn", "DecCls", "object"} :
        TypeCaster_register("23", caster, "cur1", "TEXT")

NextRows ==
    \/ RegisterRows
    \/ \E context \in {None, "cur1"} : Transformer_init("t1", context)
    \/ \E t \in Transformers, data \in Datas : Cast(t, data, "23", "TEXT")
    \/ \E t \in Transformers : GetResult(t)
    \/ \E t \in Transformers, result \in Results \cup {None} : SetResult(t, result)
    \/ \E t \in Transformers, result \in Results :
           \E n \in RowNumbers(result) : CastRow("g1", t, result, n)
    \/ \E g \in Generators : GenNext(g)

SpecRows == Init /\ [][NextRows]_vars

\* registration: calls of register in text format, the malformed ones included
RegisterAny ==
    \/ \E src \in SrcArgs, adapter \in AdapterArgs, context \in Contexts :
           Adapter_register(src, adapter, context, "TEXT")
    \/ \E oid \in {"23", "str_23"}, caster \in CasterArgs, context \in Contexts :
           TypeCaster_register(oid, caster, context, "TEXT")

NextRegister == RegisterAny

SpecRegister == Init /\ [][NextRegister]_vars

\* the registries: every way of registering, in both formats, for int and
\* for the oids 0 and 23, globally and on a connection or cursor
RegisterAdapterAnyWay ==
    \/ \E adapter \in {"enc_fn", "EncCls"}, context \in {None, "conn1"}, format \in Formats :
           Adapter_register("int", adapter, context, format)
    \/ \E adapter \in {"enc_fn", "EncCls"}, context \in {None, "conn1"} :
           Adapter_register_binary("int", adapter, context)
    \/ \E src \in SrcArgs, adapter \in {"enc_fn", "fortytwo"} : Adapter_text(src, adapter)
    \/ \E src \in SrcArgs, adapter \in {"enc_fn", "fortytwo"} : Adapter_binary(src, adapter)

RegisterCasterAnyWay ==
    \/ \E oid \in {INVALID_OID, "23"}, caster \in {"dec_fn", "DecCls"},
          context \in {None, "cur1"}, format \in Formats :
           TypeCaster_register(oid, caster, context, format)
    \/ \E oid \in {INVALID_OID, "23"}, caster \in {"dec_fn", "DecCls"},
          context \in {None, "cur1"} :
           TypeCaster_register_binary(oid, caster, context)
    \/ \E oid \in OidArgs, caster \in {"dec_fn", "fortytwo"} : TypeCaster_text(oid, caster)
    \/ \E oid \in OidArgs, caster \in {"dec_fn", "fortytwo"} : TypeCaster_binary(oid, caster)

NextRegistry == RegisterAdapterAnyWay \/ RegisterCasterAnyWay

SpecRegistry == Init /\ [][NextRegistry]_vars

\* the fallback casters: casters registered by every entry point, on
\* INVALID_OID and on oid 23, globally and on the cursor, and Transformers
\* that resolve and decode an oid nobody registered
RegisterSentinel ==
    \/ \E oid \in {INVALID_OID, "23"}, context \in {None, "cur1"}, format \in Formats :
           TypeCaster_register(oid, "dec_fn", context, format)
    \/ \E context \in {None, "cur1"} :
           TypeCaster_register_binary(INVALID_OID, "DecCls", context)
    \/ \E caster \in {"dec_fn", "DecCls"} : TypeCaster_text(INVALID_OID, caster)
    \/ \E oid \in {INVALID_OID, "23"} : TypeCaster_binary(oid, "dec_fn")

NextSentinel ==
    \/ RegisterSentinel
    \/ \E context \in {None, "cur1"} : Transformer_init("t1", context)
    \/ \E t \in Transformers, fmt \in Formats : GetCastFunction(t, TEXT_OID, fmt)
    \/ \E t \in Transformers, fmt \in Formats : Cast(t, "b42", TEXT_OID, fmt)

SpecSentinel == Init /\ [][NextSentinel]_vars

\* contexts: Transformers, adapters and casters constructed with every
\* context, and the calls on a Transformer that resolve and bind
NextContext ==
    \/ \E context \in {None, "cur1"} : Adapter_register("int", "EncCls", context, "TEXT")
    \/ ConstructOne
    \/ \E context \in Contexts : Adapter_init("EncCls", "int", context)
    \/ \E context \in Contexts : TypeCaster_init("UnknownCaster", TEXT_OID, context)
    \/ \E t \in Transformers : GetAdaptFunction(t, "int", "TEXT")
    \/ \E t \in Transformers : GetCastFunction(t, TEXT_OID, "TEXT")
    \/ \E t \in Transformers : SetResult(t, "res2")
    \/ \E t \in Transformers : GetResult(t)

SpecContext == Init /\ [][NextContext]_vars

\* two Transformers: a stateful adapter registered, two Transformers
\* constructed, on the cursor and without a context, each resolving, binding
\* results and decoding a row
NextIsolation ==
    \/ Adapter_register("int", "EncCls", None, "TEXT")
    \/ Transformer_init("t1", "cur1")
    \/ Transformer_init("t2", None)
    \/ \E t \in Transformers : GetAdaptFunction(t, "int", "TEXT")
    \/ \E t \in Transformers : GetCastFunction(t, "23", "TEXT")
    \/ SetResult("t1", "res2")
    \/ SetResult("t2", "res1")
    \/ CastRow("g1", "t2", "res1", 1)
    \/ \E g \in Generators : GenNext(g)

SpecIsolation == Init /\ [][NextIsolation]_vars

\* interleaving: a caster registered for oid 23 on the cursor, one
\* Transformer, and two generators of cast_row over the two results,
\* created and advanced in any order, a result being bound in between
NextInterleave ==
    \/ TypeCaster_register("23", "dec_fn", "cur1", "TEXT")
    \/ \E context \in {None, "cur1"} : Transformer_init("t1", context)
    \/ CastRow("g1", "t1", "res1", 1)
    \/ CastRow("g2", "t1", "res2", 0)
    \/ \E g \in Generators : GenNext(g)
    \/ \E result \in Results : SetResult("t1", result)

SpecInterleave == Init /\ [][NextInterleave]_vars

(***************************************************************************)
(* Properties.                                                             *)
(***************************************************************************)
\* the registries a Transformer is entitled to consult, most specific first:
\* bound to a cursor, the cursor's, its connection's and the global one;
\* bound to a connection, the connection's and the global one; otherwise
\* the global one alone
ScopeChain(t) ==
    IF cursor[t] # None
    THEN <<cursor[t], cursor_conn(cursor[t]), "globals">>
    ELSE IF connection[t] # None
    THEN <<connection[t], "globals">>
    ELSE <<"globals">>

\* the entry for key in the first registry of the chain that has one
FirstMatch(registry, chain, key) ==
    LET having == {i \in 1 .. Len(chain) : key \in DOMAIN registry[chain[i]]}
        first == CHOOSE i \in having : \A j \in having : i <= j
    IN  IF having = {} THEN None ELSE registry[chain[first]][key]

\* C1: lookup precedence.  Whatever the registries hold, a resolution
\* returns the conversion of the most specific registry, among those of the
\* Transformer's cursor, connection and the global one, that has the key.
C1_LookupPrecedence ==
    /\ last.op = "get_adapt_function" =>
           LET match == FirstMatch(adapters, ScopeChain(last.t), <<last.src, last.fmt>>)
           IN  match # None =>
                   /\ last.err = None
                   /\ last.conv = match
                   /\ last.ret.conv = match
    /\ last.op = "get_cast_function" =>
           LET match == FirstMatch(casters, ScopeChain(last.t), <<last.oid, last.fmt>>)
           IN  match # None =>
                   /\ last.err = None
                   /\ last.conv = match
                   /\ last.ret.conv = match

\* C1 happens: a Transformer bound to a cursor resolved a key that the
\* cursor and its connection register differently, and got the cursor's
C1_Witness ==
    /\ last.op = "get_adapt_function"
    /\ cursor[last.t] = "cur1"
    /\ <<last.src, last.fmt>> \in DOMAIN adapters["cur1"]
    /\ <<last.src, last.fmt>> \in DOMAIN adapters["conn1"]
    /\ adapters["cur1"][<<last.src, last.fmt>>] # adapters["conn1"][<<last.src, last.fmt>>]
    /\ last.conv = adapters["cur1"][<<last.src, last.fmt>>]

\* C2: caching idempotence.  A Transformer constructs the stateful class
\* registered for a key at most once: no key has had two instances built.
C2_ConstructedOncePerKey ==
    \A t \in Transformers :
        /\ \A k \in AdaptKeys : inits[t].adapter[k] <= 1
        /\ \A k \in CastKeys : inits[t].caster[k] <= 1

\* C3: rebinding is a no-op.  Binding the result the row casters were built
\* for, by assigning Transformer.result or by cast_row, looks nothing up,
\* constructs nothing and leaves the list of row casters as it was.
C3_RebindingIsNoOp ==
    (/\ last.op \in {"result", "next"}
     /\ last.rebind
     /\ last.result # None)
    => (/\ last.lookups = 0
        /\ last.inits = 0
        /\ last.rc_same)

\* no registry has a caster for the key
NoCasterAnywhere(key) == \A s \in Scopes : key \notin DOMAIN casters[s]

\* the text a fallback decode produces, whatever the codec
IsText(v, data) == \E codec \in {"utf8", "latin1"} : v = "str(" \o data \o "," \o codec \o ")"

\* C4: unknown-type decode never fails.  Resolving an oid that no registry
\* has a caster for raises nothing and yields the caster the global
\* registry holds under (INVALID_OID, format); with the fallbacks of the
\* module the value is text in text format, the bytes in binary format.
C4_UnknownDecodeNeverFails ==
    /\ (last.op = "get_cast_function" /\ NoCasterAnywhere(<<last.oid, last.fmt>>)) =>
           /\ last.err = None
           /\ last.conv = casters["globals"][<<INVALID_OID, last.fmt>>]
    /\ (last.op = "cast" /\ last.data # None /\ NoCasterAnywhere(<<last.oid, last.fmt>>)) =>
           /\ last.err = None
           /\ Len(last.calls) = 1
           /\ last.calls[1].f.conv = casters["globals"][<<INVALID_OID, last.fmt>>]
           /\ last.calls[1].f.conv = "UnknownCaster" => IsText(last.ret, last.data)
           /\ last.calls[1].f.conv = "cast_unknown" => last.ret = last.data

\* no registry has an adapter for the key
NoAdapterAnywhere(key) == \A s \in Scopes : key \notin DOMAIN adapters[s]

\* the adaptation error for a value and a format
CannotAdapt(obj, fmt) ==
    "ProgrammingError: cannot adapt type " \o type(obj) \o " to format " \o fmt

\* C5: unknown-type encode fails.  Encoding a value other than None whose
\* (type, format) no registry has an adapter for raises the adaptation
\* error naming the type and the format, and no adapter is called for it;
\* an adapter under the other format makes no difference.
C5_UnknownEncodeFails ==
    /\ (/\ last.op = "adapt"
        /\ last.obj # None
        /\ NoAdapterAnywhere(<<type(last.obj), last.fmt>>)) =>
           /\ last.err = CannotAdapt(last.obj, last.fmt)
           /\ last.calls = <<>>
    /\ last.op = "adapt_sequence" =>
           LET n == IF Len(last.objs) < Len(last.fmts) THEN Len(last.objs) ELSE Len(last.fmts)
               missing == {i \in 1 .. n :
                              /\ last.objs[i] # None
                              /\ NoAdapterAnywhere(<<type(last.objs[i]), last.fmts[i]>>)}
               first == CHOOSE i \in missing : \A j \in missing : i <= j
           IN  missing # {} =>
                   /\ last.err = CannotAdapt(last.objs[first], last.fmts[first])
                   /\ last.out = <<>>
                   /\ Len(last.calls) < first

\* C5 happens: an int was adapted in text format while the only adapter
\* for int is registered under the binary format
C5_Witness ==
    /\ last.op = "adapt"
    /\ last.obj = "five"
    /\ last.fmt = "TEXT"
    /\ <<"int", "BINARY">> \in DOMAIN adapters["globals"]
    /\ NoAdapterAnywhere(<<"int", "TEXT">>)
    /\ last.err # None

\* C6: cache entries are never invalidated.  Every resolution of a key
\* returns the callable the Transformer's first resolution of that key
\* returned, whatever was registered in between.
C6_LaterResolutionsReturnFirst ==
    /\ (last.op = "get_adapt_function" /\ last.err = None) =>
           last.ret = resolved[last.t].adapter[<<last.src, last.fmt>>]
    /\ (last.op = "get_cast_function" /\ last.err = None) =>
           last.ret = resolved[last.t].caster[<<last.oid, last.fmt>>]

\* the caster the registries select for a Transformer and a key, the
\* fallback included
SelectedCaster(t, key) ==
    LET match == FirstMatch(casters, ScopeChain(t), key)
    IN  IF match # None THEN match ELSE casters["globals"][<<INVALID_OID, key[2]>>]

\* func is what Transformer t resolves the key to: the selected function
\* itself, or the cast method of an instance of the selected class that t
\* constructed with its connection
ResolvedFor(func, t, key) ==
    /\ func.conv = SelectedCaster(t, key)
    /\ func.kind = IF isinstance_type(SelectedCaster(t, key)) THEN "method" ELSE "func"
    /\ func.kind = "method" => (func.owner = t /\ func.connection = connection[t])

\* C7: row decode consistency.  A binding that returns leaves one row
\* caster per column of the result, the one resolved for the column's type
\* and format; the generator of cast_row yields the columns from 0 on, one
\* value each, and stops after the last; a value is the column's row caster
\* applied to the bytes, when there are bytes.
C7_RowDecodeConsistency ==
    /\ (/\ last.op \in {"result", "next"}
        /\ last.op = "next" => last.first
        /\ last.result # None
        /\ last.err = None) =>
           LET rc == _row_casters[last.t]
           IN  /\ Len(rc) = nfields(last.result)
               /\ \A c \in 0 .. (nfields(last.result) - 1) :
                      ResolvedFor(rc[c + 1], last.t,
                                  <<ftype(last.result, c), fformat(last.result, c)>>)
    /\ (last.op = "next" /\ last.err = None) =>
           /\ last.first => last.col = 0
           /\ last.stop <=> last.col = nfields(last.result)
           /\ ~ last.stop =>
                  LET g == gen[last.g]
                      raw == get_value(last.result, last.n, last.col)
                  IN  /\ g.status = "running"
                      /\ g.col = last.col + 1
                      /\ Len(g.casters) = nfields(last.result)
                      /\ last.first => g.casters = _row_casters[last.t]
                      /\ raw # None => last.v = call_caster(g.casters[last.col + 1], raw)

\* C7 happens: the generator of cast_row over the two-column result has
\* yielded both columns and stopped
C7_Witness ==
    /\ last.op = "next"
    /\ last.result = "res1"
    /\ last.stop
    /\ last.col = nfields("res1")

\* C8: NULL encoding.  Adapting None gives (None, TEXT_OID) in either
\* format, with no lookup, no adapter constructed or called and no error;
\* in adapt_sequence a None gives None in the data and TEXT_OID in the types.
C8_NoneEncoding ==
    /\ (last.op = "adapt" /\ last.obj = None) =>
           /\ last.err = None
           /\ last.ret = [tuple |-> TRUE, data |-> None, oid |-> TEXT_OID]
           /\ last.lookups = 0
           /\ last.inits = 0
           /\ last.calls = <<>>
    /\ last.op = "adapt_sequence" =>
           /\ \A k \in 1 .. Len(last.calls) : last.calls[k].arg # None
           /\ last.err = None =>
                  \A i \in 1 .. Len(last.out) :
                      last.objs[i] = None =>
                          (last.out[i] = None /\ last.types[i] = TEXT_OID)
           /\ (\A i \in 1 .. Len(last.objs) : last.objs[i] = None) =>
                  (last.err = None /\ last.lookups = 0)

\* C8 happens: None was adapted in binary format while no adapter is
\* registered anywhere
C8_Witness ==
    /\ last.op = "adapt"
    /\ last.obj = None
    /\ last.fmt = "BINARY"
    /\ \A s \in Scopes : DOMAIN adapters[s] = {}
    /\ last.ret.data = None

\* C9: NULL decoding.  No caster is ever called on None: cast_row yields
\* None for a column without bytes and calls nothing, and still decodes
\* the columns that have bytes; cast returns None for None at once, with
\* no lookup and nothing constructed.
C9_NoneDecoding ==
    /\ last.op \in {"next", "cast"} =>
           \A k \in 1 .. Len(last.calls) : last.calls[k].arg # None
    /\ (last.op = "next" /\ last.err = None /\ ~ last.stop) =>
           LET raw == get_value(last.result, last.n, last.col)
           IN  /\ raw = None => (last.v = None /\ last.calls = <<>>)
               /\ raw # None => (Len(last.calls) = 1 /\ last.calls[1].arg = raw)
    /\ (last.op = "cast" /\ last.data = None) =>
           /\ last.err = None
           /\ last.ret = None
           /\ last.lookups = 0
           /\ last.inits = 0
           /\ last.calls = <<>>

\* C9 happens: in a row whose first column is NULL, the second column has
\* just been decoded (the first was yielded as None the step before)
C9_Witness ==
    /\ last.op = "next"
    /\ last.result = "res1"
    /\ get_value("res1", last.n, 0) = None
    /\ last.col = 1
    /\ Len(last.calls) = 1

\* C10: registration rejects malformed calls.  A call of register whose key
\* is not a type (an int, for casters), whose context is neither None, a
\* connection nor a cursor, or whose conversion is neither a function nor a
\* subclass of Adapter (of TypeCaster, for casters) raises TypeError, and
\* no registry ever holds such a conversion.
C10_MalformedRegistrationRejected ==
    /\ (/\ last.op = "Adapter.register"
        /\ \/ ~ isinstance_type(last.src)
           \/ last.context \notin ({None} \cup BaseConnections \cup BaseCursors)
           \/ ~ (last.conv \in Functions \/ issubclass_Adapter(last.conv))) =>
           last.err = "TypeError"
    /\ (/\ last.op = "TypeCaster.register"
        /\ \/ ~ isinstance_int(last.oid)
           \/ last.context \notin ({None} \cup BaseConnections \cup BaseCursors)
           \/ ~ (last.conv \in Functions \/ issubclass_TypeCaster(last.conv))) =>
           last.err = "TypeError"
    /\ \A s \in Scopes :
           /\ \A k \in DOMAIN adapters[s] :
                  adapters[s][k] \in Functions \/ issubclass_Adapter(adapters[s][k])
           /\ \A k \in DOMAIN casters[s] :
                  casters[s][k] \in Functions \/ issubclass_TypeCaster(casters[s][k])

\* the entry points of registration
AdapterOps == {"Adapter.register", "Adapter.register_binary", "Adapter.text", "Adapter.binary"}
CasterOps ==
    {"TypeCaster.register", "TypeCaster.register_binary", "TypeCaster.text",
     "TypeCaster.binary"}

\* the registry a scope selects
SelectedRegistry(context) == IF context = None THEN "globals" ELSE context

\* registries r2 are registries r1 but for the entry of key in the registry
\* where, which is conv
OnlyEntrySet(r1, r2, where, key, conv) ==
    /\ key \in DOMAIN r2[where]
    /\ r2[where][key] = conv
    /\ \A s \in Scopes :
           \A k \in (DOMAIN r1[s]) \cup (DOMAIN r2[s]) :
               <<s, k>> # <<where, key>> =>
                   /\ k \in DOMAIN r1[s]
                   /\ k \in DOMAIN r2[s]
                   /\ r2[s][k] = r1[s][k]

\* C11: registration effect and frame.  A registration that returns makes
\* the registry its scope selects (the global one for None) map (key,
\* format) to the conversion, whatever it mapped it to before; every other
\* key of that registry, every other registry of the kind, the same key
\* under the other format and the registries of the other kind are as they
\* were.
C11_RegistrationEffectAndFrame ==
    [][/\ (last'.op \in AdapterOps /\ last'.err = None) =>
              /\ OnlyEntrySet(adapters, adapters', SelectedRegistry(last'.context),
                              <<last'.src, last'.fmt>>, last'.conv)
              /\ casters' = casters
       /\ (last'.op \in CasterOps /\ last'.err = None) =>
              /\ OnlyEntrySet(casters, casters', SelectedRegistry(last'.context),
                              <<last'.oid, last'.fmt>>, last'.conv)
              /\ adapters' = adapters]_vars

\* C11 happens: two registrations returned, the second on the connection
\* in binary format, and the connection's registry has one entry while the
\* global one has another
C11_Witness ==
    /\ last.op = "Adapter.register_binary"
    /\ last.err = None
    /\ last.context = "conn1"
    /\ nregs = 2
    /\ DOMAIN adapters["conn1"] = {<<"int", "BINARY">>}
    /\ adapters["conn1"][<<"int", "BINARY">>] = last.conv
    /\ DOMAIN adapters["globals"] = {<<"int", "TEXT">>}

\* C12: sentinel invariant.  Whatever is registered, by whichever entry
\* point and at whichever scope, and whatever the Transformers do, the
\* global registry of casters has an entry under (INVALID_OID, TEXT) and
\* one under (INVALID_OID, BINARY), and no resolution fails on a missing key.
C12_SentinelInvariant ==
    /\ \A fmt \in Formats : <<INVALID_OID, fmt>> \in DOMAIN casters["globals"]
    /\ last.op \in {"get_cast_function", "cast"} => last.err # "KeyError"

\* C12 happens: the fallback was registered anew, globally and on the
\* cursor, and a Transformer then resolved an oid no registry has, getting
\* the global fallback
C12_Witness ==
    /\ last.op = "get_cast_function"
    /\ last.oid = TEXT_OID
    /\ NoCasterAnywhere(<<last.oid, last.fmt>>)
    /\ nregs = 2
    /\ <<INVALID_OID, last.fmt>> \in DOMAIN casters["cur1"]
    /\ casters["globals"][<<INVALID_OID, last.fmt>>] = "dec_fn"
    /\ cursor[last.t] = None
    /\ last.err = None
    /\ last.conv = "dec_fn"

\* the adapter the registries select for a Transformer and a key
SelectedAdapter(t, key) == FirstMatch(adapters, ScopeChain(t), key)

\* the values among the first i that are not None
NotNoneUpTo(objs, i) == Cardinality({j \in 1 .. i : objs[j] # None})

\* entry i of what adapt_sequence returned is right: None and TEXT_OID for
\* None; otherwise what the adapter selected for (type of value i, format i)
\* returned for value i, with the oid it returned, or TEXT_OID if it
\* returned bytes alone
EntryAsAdapted(i) ==
    LET obj == last.objs[i]
        call == last.calls[NotNoneUpTo(last.objs, i)]
        data == call_adapter(call.f, obj)
    IN  IF obj = None
        THEN last.out[i] = None /\ last.types[i] = TEXT_OID
        ELSE /\ call.arg = obj
             /\ call.f.conv = SelectedAdapter(last.t, <<type(obj), last.fmts[i]>>)
             /\ last.out[i] = data.data
             /\ last.types[i] = IF data.tuple THEN data.oid ELSE TEXT_OID

\* C13 as stated: adapt_sequence returns one entry per input value, entry
\* i being value i encoded with format i, in the data and in the types.
C13_OneEntryPerValue ==
    (last.op = "adapt_sequence" /\ last.err = None) =>
        /\ Len(last.out) = Len(last.objs)
        /\ Len(last.types) = Len(last.objs)
        /\ \A i \in 1 .. Len(last.objs) : EntryAsAdapted(i)

\* C13, amended: adapt_sequence returns one entry per pair of zip(values,
\* formats), that is per value which has a format (the values beyond the
\* formats are left out); the data and the types are parallel and in input
\* order, entry i being value i encoded with format i.
C13_OneEntryPerPair ==
    (last.op = "adapt_sequence" /\ last.err = None) =>
        LET n == IF Len(last.objs) < Len(last.fmts) THEN Len(last.objs) ELSE Len(last.fmts)
        IN  /\ Len(last.out) = n
            /\ Len(last.types) = n
            /\ Len(last.calls) = NotNoneUpTo(last.objs, n)
            /\ \A i \in 1 .. n : EntryAsAdapted(i)

\* C13 happens: [5, None] was encoded with [BINARY, TEXT], the adapter for
\* int in binary format being a class whose adapt returns the oid of int4
C13_Witness ==
    /\ last.op = "adapt_sequence"
    /\ last.objs = <<"five", None>>
    /\ last.fmts = <<"BINARY", "TEXT">>
    /\ last.err = None
    /\ last.out = <<"EncCls.adapt(five)", None>>
    /\ last.types = <<"23", TEXT_OID>>

\* the codec the text fallback of a Transformer decodes with: that of the
\* Transformer's connection, UTF-8 without one
FallbackCodec(t) ==
    IF connection[t] # None THEN connection_codec(connection[t]) ELSE "utf8"

\* C14: text fallback codec choice.  The UnknownCaster a Transformer
\* resolves carries the Transformer's connection (its own, or that of its
\* cursor), and decodes bytes with that connection's codec; resolved by a
\* Transformer without a context it decodes as UTF-8.
C14_TextFallbackCodec ==
    /\ (/\ last.op = "get_cast_function"
        /\ last.err = None
        /\ last.conv = "UnknownCaster") =>
           /\ last.ret.connection = connection[last.t]
           /\ call_caster(last.ret, "b42") = "str(b42," \o FallbackCodec(last.t) \o ")"
    /\ (/\ last.op = "cast"
        /\ last.err = None
        /\ last.data # None
        /\ last.calls[1].f.conv = "UnknownCaster") =>
           last.ret = "str(" \o last.data \o "," \o FallbackCodec(last.t) \o ")"

\* C14 happens: a Transformer bound to a cursor decoded bytes of an oid
\* nobody registered, in text format, with the codec of the cursor's
\* connection
C14_Witness ==
    /\ last.op = "cast"
    /\ cursor[last.t] = "cur1"
    /\ connection[last.t] = "conn1"
    /\ last.fmt = "TEXT"
    /\ NoCasterAnywhere(<<last.oid, last.fmt>>)
    /\ last.data = "b42"
    /\ last.ret = "str(b42,latin1)"

\* C15: the bound result and the row casters are replaced together.  After
\* a result is bound, by assignment or by cast_row, Transformer.result is
\* that result; and between calls the list of row casters has one caster
\* per column of the result Transformer.result returns, none while that is
\* None.
C15_ResultAndRowCastersTogether ==
    /\ (/\ last.op \in {"result", "next"}
        /\ last.op = "next" => last.first
        /\ last.result # None
        /\ last.err = None) =>
           _result[last.t] = last.result
    /\ last.op = "result.get" =>
           Len(_row_casters[last.t]) =
               IF last.ret = None THEN 0 ELSE nfields(last.ret)

\* the connection and the cursor a context stands for
ContextPair(context) ==
    IF context \in BaseCursors
    THEN <<cursor_conn(context), context>>
    ELSE IF context \in BaseConnections
    THEN <<context, None>>
    ELSE <<None, None>>

\* what the construction that has just been made resolved its context to
ContextSolved ==
    /\ last.op = "Transformer" =>
           IF last.context \in {None} \cup BaseConnections \cup BaseCursors
           THEN /\ last.err = None
                /\ built[last.t]
                /\ <<connection[last.t], cursor[last.t]>> = ContextPair(last.context)
           ELSE last.err = "TypeError"
    /\ last.op \in {"Adapter", "TypeCaster"} =>
           IF last.context \in {None} \cup BaseConnections \cup BaseCursors
           THEN /\ last.err = None
                /\ <<last.connection, last.cursor>> = ContextPair(last.context)
           ELSE last.err = "TypeError"

\* C16: context resolution is fixed at construction.  A Transformer, an
\* Adapter or a TypeCaster constructed with None has no connection and no
\* cursor, with a connection has that connection and no cursor, with a
\* cursor has the cursor and its connection, and with anything else raises
\* TypeError; and no call changes the connection or the cursor of a
\* Transformer that has been constructed.
C16_ContextFixedAtConstruction ==
    [][/\ ContextSolved'
       /\ \A t \in Transformers :
              built[t] => (connection'[t] = connection[t] /\ cursor'[t] = cursor[t])]_vars

\* C16 happens: a Transformer constructed with a cursor has resolved a
\* stateful caster and bound a result, and still has the cursor and the
\* cursor's connection
C16_Witness ==
    /\ last.op = "result"
    /\ last.err = None
    /\ last.inits > 0
    /\ cursor[last.t] = "cur1"
    /\ connection[last.t] = cursor_conn("cur1")

\* the calls made on a Transformer
TransformerOps ==
    {"Transformer", "get_adapt_function", "get_cast_function", "adapt", "adapt_sequence",
     "cast", "result", "result.get", "cast_row", "next"}

\* every stateful instance a Transformer has just returned or called, or
\* holds among its row casters, is one it constructed itself
OwnInstancesOnly ==
    /\ last.op \in {"get_adapt_function", "get_cast_function"} =>
           (last.ret.kind = "method" => last.ret.owner = last.t)
    /\ last.op \in {"adapt", "cast", "next"} =>
           \A k \in 1 .. Len(last.calls) :
               last.calls[k].f.kind = "method" => last.calls[k].f.owner = last.t
    /\ \A t \in Transformers :
           \A i \in 1 .. Len(_row_casters[t]) :
               _row_casters[t][i].kind = "method" => _row_casters[t][i].owner = t

\* C17: caches are per Transformer.  A call on one Transformer leaves the
\* cache of adapters, the cache of casters, the bound result and the row
\* casters of every other Transformer as they were, and a Transformer
\* returns, calls and holds only the stateful instances it constructed.
C17_CachesPerTransformer ==
    [][/\ last'.op \in TransformerOps =>
              \A u \in Transformers \ {last'.t} :
                  /\ _adapt_funcs'[u] = _adapt_funcs[u]
                  /\ _cast_funcs'[u] = _cast_funcs[u]
                  /\ _result'[u] = _result[u]
                  /\ _row_casters'[u] = _row_casters[u]
       /\ OwnInstancesOnly']_vars

\* C17 happens: the second Transformer holds the row casters of the
\* two-column result, a stateful one among them, and the first has just
\* bound the one-column result, constructing its own caster
C17_Witness ==
    /\ last.op = "result"
    /\ last.t = "t1"
    /\ last.result = "res2"
    /\ last.err = None
    /\ last.inits = 1
    /\ Len(_row_casters["t1"]) = 1
    /\ Len(_row_casters["t2"]) = 2
    /\ _row_casters["t2"][2].owner = "t2"
    /\ _row_casters["t1"][1].owner = "t1"

\* the format a decorator registers under
DecoratorFormat(op) == IF op \in {"Adapter.text", "TypeCaster.text"} THEN "TEXT" ELSE "BINARY"

\* C18: decorator-style registration is equivalent to register.  Applying
\* Adapter.text(k) or TypeCaster.text(k) to a conversion does to the
\* registries what register(k, conversion, None, TEXT) does, and applying
\* binary(k) what register_binary(k, conversion, None) does: accepted when
\* register accepts the key and the conversion, it sets the entry of (k,
\* format) in the global registry of its kind, changes nothing else and
\* returns the conversion; rejected when register rejects them, it raises
\* TypeError and changes nothing.
C18_DecoratorEquivalence ==
    [][/\ last'.op \in {"Adapter.text", "Adapter.binary"} =>
              IF Adapter_register_ok(last'.src, last'.conv, None)
              THEN /\ last'.err = None
                   /\ last'.ret = last'.conv
                   /\ OnlyEntrySet(adapters, adapters', "globals",
                                   <<last'.src, DecoratorFormat(last'.op)>>, last'.conv)
                   /\ casters' = casters
              ELSE /\ last'.err = "TypeError"
                   /\ adapters' = adapters
                   /\ casters' = casters
       /\ last'.op \in {"TypeCaster.text", "TypeCaster.binary"} =>
              IF TypeCaster_register_ok(last'.oid, last'.conv, None)
              THEN /\ last'.err = None
                   /\ last'.ret = last'.conv
                   /\ OnlyEntrySet(casters, casters', "globals",
                                   <<last'.oid, DecoratorFormat(last'.op)>>, last'.conv)
                   /\ adapters' = adapters
              ELSE /\ last'.err = "TypeError"
                   /\ adapters' = adapters
                   /\ casters' = casters]_vars

\* C18 happens: Adapter.text(int) was applied to a function while the
\* connection has an adapter for int of its own; the function was returned
\* and is the global adapter of int in text format
C18_Witness ==
    /\ last.op = "Adapter.text"
    /\ last.src = "int"
    /\ last.err = None
    /\ last.ret = "enc_fn"
    /\ adapters["globals"][<<"int", "TEXT">>] = "enc_fn"
    /\ <<"int", "BINARY">> \notin DOMAIN adapters["globals"]
    /\ DOMAIN adapters["conn1"] # {}

\* C19: interleaved row iteration is safe.  With two generators of
\* cast_row over different results on one Transformer, advanced in any
\* order: a generator in progress keeps its position and its row casters
\* whatever the other one does and whatever result is bound meanwhile; each
\* next yields the value of the generator's own next column, decoded (when
\* there are bytes) by the caster resolved for that column of its own
\* result when the generator started; and the generator stops after the
\* last column of its own result.
C19_InterleavedRowsSafe ==
    [][/\ \A g \in Generators :
              (/\ gen[g].status = "running"
               /\ ~ (last'.op \in {"next", "cast_row"} /\ last'.g = g)) =>
                  gen'[g] = gen[g]
       /\ (last'.op = "next" /\ last'.err = None) =>
              LET g == last'.g
                  result == last'.result
                  col == last'.col
              IN  /\ result = gen[g].result
                  /\ col = gen[g].col
                  /\ last'.first <=> col = 0
                  /\ last'.stop <=> col = nfields(result)
                  /\ ~ last'.stop =>
                         LET rc == gen'[g].casters
                             raw == get_value(result, last'.n, col)
                         IN  /\ Len(rc) = nfields(result)
                             /\ ~ last'.first => rc = gen[g].casters
                             /\ last'.first =>
                                    \A c \in 0 .. (nfields(result) - 1) :
                                        ResolvedFor(rc[c + 1], last'.t,
                                                    <<ftype(result, c), fformat(result, c)>>)
                             /\ last'.v = IF raw = None THEN None
                                          ELSE call_caster(rc[col + 1], raw)]_vars

\* C19 happens: the generator over the two-column result has yielded its
\* second column after the other generator had bound the one-column
\* result, whose row casters are the Transformer's current ones
C19_Witness ==
    /\ last.op = "next"
    /\ last.g = "g1"
    /\ last.result = "res1"
    /\ last.col = 1
    /\ ~ last.stop
    /\ last.v # None
    /\ gen["g2"].status = "running"
    /\ gen["g2"].result = "res2"
    /\ Len(_row_casters["t1"]) = nfields("res2")

\* C20: stateful conversions are constructed with the connection, never
\* the cursor.  The instance of a stateful adapter or caster that a
\* Transformer constructs has the Transformer's connection (None if it has
\* none) and no cursor, also when the Transformer is bound to a cursor and
\* found the class in the cursor's registry.
C20_ConstructedWithConnection ==
    (/\ last.op \in {"get_adapt_function", "get_cast_function"}
     /\ last.err = None
     /\ last.ret.kind = "method") =>
        /\ last.inits = 1
        /\ last.ret.owner = last.t
        /\ last.ret.connection = connection[last.t]
        /\ last.ret.cursor = None

\* C20 happens: a Transformer bound to a cursor resolved an adapter class
\* registered on that cursor; the instance has the cursor's connection and
\* no cursor
C20_Witness ==
    /\ last.op = "get_adapt_function"
    /\ cursor[last.t] = "cur1"
    /\ <<last.src, last.fmt>> \in DOMAIN adapters["cur1"]
    /\ adapters["cur1"][<<last.src, last.fmt>>] = "EncCls"
    /\ last.ret.kind = "method"
    /\ last.ret.conv = "EncCls"
    /\ last.ret.connection = "conn1"
    /\ last.ret.cursor = None

====
